---------------------------- MODULE Spec2Model ----------------------------
(***************************************************************************)
(* Model of lab1_password_audit.py: the password analysis function         *)
(* analyze_password and its helpers normalize, extract_birth_tokens,       *)
(* char_classes and has_sequences.                                         *)
(*                                                                         *)
(* A Python str is a sequence of one-character strings.  The character     *)
(* predicates (islower, isupper, isdigit, isalnum, lower, \s) are modelled *)
(* on ASCII, which is the alphabet every input of the model is drawn from. *)
(***************************************************************************)
EXTENDS Integers, Sequences, FiniteSets, TLC

VARIABLES password, first_name, last_name, dob, pc, result, recs, birth, seqs

vars == <<password, first_name, last_name, dob, pc, result, recs, birth, seqs>>

(***************************************************************************)
(* Characters                                                              *)
(***************************************************************************)
LowerLetters == <<"a", "b", "c", "d", "e", "f", "g", "h", "i", "j", "k", "l", "m", "n", "o", "p", "q", "r", "s", "t", "u", "v", "w", "x", "y", "z">>

UpperLetters == <<"A", "B", "C", "D", "E", "F", "G", "H", "I", "J", "K", "L", "M", "N", "O", "P", "Q", "R", "S", "T", "U", "V", "W", "X", "Y", "Z">>

DigitChars == <<"0", "1", "2", "3", "4", "5", "6", "7", "8", "9">>

Whitespace == {" ", "\t", "\n", "\r", "\f"}

Range(s) == {s[i] : i \in 1..Len(s)}

LowerSet == Range(LowerLetters)

UpperSet == Range(UpperLetters)

DigitSet == Range(DigitChars)

\* str.islower(), str.isupper(), str.isdigit(), str.isalnum() of one character
IsLower(c) == c \in LowerSet

IsUpper(c) == c \in UpperSet

IsDigit(c) == c \in DigitSet

IsAlnum(c) == IsLower(c) \/ IsUpper(c) \/ IsDigit(c)

LowerChar(c) ==
    IF IsUpper(c)
    THEN LowerLetters[CHOOSE i \in 1..Len(UpperLetters) : UpperLetters[i] = c]
    ELSE c

\* str.lower()
Lower(s) == [i \in 1..Len(s) |-> LowerChar(s[i])]

\* str.strip(): drop the leading and the trailing whitespace
Strip(s) ==
    LET keep == {i \in 1..Len(s) : s[i] \notin Whitespace}
        Lo == CHOOSE i \in keep : \A j \in keep : i <= j
        Hi == CHOOSE i \in keep : \A j \in keep : j <= i
    IN  IF keep = {} THEN <<>> ELSE SubSeq(s, Lo, Hi)

\* F applied to the value of e, with e evaluated once
Bind(e, F(_)) == CHOOSE r \in {F(x) : x \in {e}} : TRUE

\* needle in hay
Contains(needle, hay) ==
    Bind(<<needle, hay>>, LAMBDA a :
        \E i \in 0..(Len(a[2]) - Len(a[1])) :
            SubSeq(a[2], i + 1, i + Len(a[1])) = a[1])

\* int() of one decimal digit
DigitVal(c) == (CHOOSE i \in 1..Len(DigitChars) : DigitChars[i] = c) - 1

(***************************************************************************)
(* normalize                                                               *)
(***************************************************************************)
IsSeparator(c) == c \in Whitespace \cup {"_", "-", "."}

\* variant of normalize: the re.sub is left out
normalizeKeepSeparators(s) == Lower(Strip(s))

\* re.sub(r"[\s_\-\.]+", "", s.strip().lower())
normalize(s) == SelectSeq(Lower(Strip(s)), LAMBDA c : ~IsSeparator(c))

(***************************************************************************)
(* datetime.strptime(dob, "%d.%m.%Y")                                      *)
(***************************************************************************)
At(s, i) == IF i \in 1..Len(s) THEN s[i] ELSE "EOS"

NonZeroDigit(c) == IsDigit(c) /\ c # "0"

\* %d is (3[0-1]|[1-2]\d|0[1-9]|[1-9]| [1-9]): the alternatives that match
\* at the start of s, in the order the regex tries them, each with the
\* number of characters it takes and the day it reads.
DayAlternatives(s) ==
    LET a == At(s, 1)
        b == At(s, 2)
        two == [n |-> 2, v |-> 10 * DigitVal(a) + DigitVal(b)]
    IN  (IF a = "3" /\ b \in {"0", "1"} THEN <<two>> ELSE <<>>)
        \o (IF a \in {"1", "2"} /\ IsDigit(b) THEN <<two>> ELSE <<>>)
        \o (IF a = "0" /\ NonZeroDigit(b) THEN <<two>> ELSE <<>>)
        \o (IF NonZeroDigit(a) THEN <<[n |-> 1, v |-> DigitVal(a)]>> ELSE <<>>)
        \o (IF a = " " /\ NonZeroDigit(b)
            THEN <<[n |-> 2, v |-> DigitVal(b)]>> ELSE <<>>)

\* %m is (1[0-2]|0[1-9]|[1-9]), matched at position p of s
MonthAlternatives(s, p) ==
    LET a == At(s, p)
        b == At(s, p + 1)
        two == [n |-> 2, v |-> 10 * DigitVal(a) + DigitVal(b)]
    IN  (IF a = "1" /\ b \in {"0", "1", "2"} THEN <<two>> ELSE <<>>)
        \o (IF a = "0" /\ NonZeroDigit(b) THEN <<two>> ELSE <<>>)
        \o (IF NonZeroDigit(a) THEN <<[n |-> 1, v |-> DigitVal(a)]>> ELSE <<>>)

\* %Y is (\d\d\d\d), matched at position p of s
YearMatches(s, p) == \A k \in 0..3 : IsDigit(At(s, p + k))

YearValue(s, p) ==
    1000 * DigitVal(s[p]) + 100 * DigitVal(s[p + 1])
        + 10 * DigitVal(s[p + 2]) + DigitVal(s[p + 3])

\* The regex match of the whole format from the start of s: the first pair
\* of alternatives, in backtracking order, that the literal dots and the
\* year follow.  end is the number of characters matched.
FormatMatches(s) ==
    Bind(DayAlternatives(s), LAMBDA ds :
        LET Fits(i, j) ==
                LET d == ds[i]
                    ms == MonthAlternatives(s, d.n + 2)
                IN  /\ At(s, d.n + 1) = "."
                    /\ j \in 1..Len(ms)
                    /\ At(s, d.n + 2 + ms[j].n) = "."
                    /\ YearMatches(s, d.n + 3 + ms[j].n)
            Entry(i, j) ==
                LET d == ds[i]
                    m == MonthAlternatives(s, d.n + 2)[j]
                IN  [day |-> d.v, month |-> m.v,
                     year |-> YearValue(s, d.n + 3 + m.n),
                     end |-> d.n + m.n + 6]
            First(Pairs) ==
                CHOOSE ij \in Pairs :
                    \A kl \in Pairs :
                        \/ ij[1] < kl[1]
                        \/ (ij[1] = kl[1] /\ ij[2] <= kl[2])
        IN  Bind({ij \in (1..Len(ds)) \X (1..3) : Fits(ij[1], ij[2])},
                 LAMBDA Pairs :
                     IF Pairs = {} THEN <<>>
                     ELSE Bind(First(Pairs),
                               LAMBDA ij : <<Entry(ij[1], ij[2])>>)))

IsLeap(y) == (y % 4 = 0) /\ ((y % 100 # 0) \/ (y % 400 = 0))

DaysInMonth(y, m) ==
    IF m = 2 THEN (IF IsLeap(y) THEN 29 ELSE 28)
    ELSE IF m \in {4, 6, 9, 11} THEN 30 ELSE 31

\* strptime: ok is FALSE where Python raises ValueError (no match,
\* unconverted data remains, year 0, day out of range for month)
strptime(s) ==
    Bind(FormatMatches(s), LAMBDA found :
        IF /\ found # <<>>
           /\ found[1].end = Len(s)
           /\ found[1].year >= 1
           /\ found[1].day <= DaysInMonth(found[1].year, found[1].month)
        THEN [ok |-> TRUE, day |-> found[1].day, month |-> found[1].month,
              year |-> found[1].year]
        ELSE [ok |-> FALSE])

(***************************************************************************)
(* extract_birth_tokens                                                    *)
(***************************************************************************)
\* variant of Format02d: no zero padding, as f"{n}"
Format02dNoPad(n) ==
    IF n < 10 THEN <<DigitChars[n + 1]>>
    ELSE <<DigitChars[(n \div 10) + 1], DigitChars[(n % 10) + 1]>>

\* f"{n:02d}" for 0 <= n <= 99
Format02d(n) == <<DigitChars[(n \div 10) + 1], DigitChars[(n % 10) + 1]>>

\* f"{n:04d}" for 0 <= n <= 9999
Format04d(n) == Format02d(n \div 100) \o Format02d(n % 100)

\* the set built from the parsed date: dd, mm, yyyy and yy = yyyy[2:]
TokenSet(dd, mm, yyyy, yy) ==
    {dd, mm, yyyy, yy,
     dd \o mm, mm \o dd,
     yyyy \o mm \o dd, dd \o mm \o yyyy,
     yy \o mm \o dd, dd \o mm \o yy}

BirthTokens(dt) ==
    Bind(<<Format02d(dt.day), Format02d(dt.month), Format04d(dt.year)>>,
         LAMBDA f : TokenSet(f[1], f[2], f[3], SubSeq(f[3], 3, Len(f[3]))))

\* ok is FALSE where strptime's ValueError leaves the function
extract_birth_tokens(s) ==
    Bind(strptime(s), LAMBDA dt :
        IF dt.ok THEN [ok |-> TRUE, tokens |-> BirthTokens(dt)]
        ELSE [ok |-> FALSE, tokens |-> {}])

(***************************************************************************)
(* char_classes                                                            *)
(***************************************************************************)
char_classes(p) ==
    [lowercase |-> \E i \in 1..Len(p) : IsLower(p[i]),
     uppercase |-> \E i \in 1..Len(p) : IsUpper(p[i]),
     digits    |-> \E i \in 1..Len(p) : IsDigit(p[i]),
     special   |-> \E i \in 1..Len(p) : ~IsAlnum(p[i])]

(***************************************************************************)
(* has_sequences                                                           *)
(***************************************************************************)
sequences ==
    <<DigitChars, LowerLetters, <<"q", "w", "e", "r", "t", "y", "u", "i", "o", "p">>, <<"a", "s", "d", "f", "g", "h", "j", "k", "l">>, <<"z", "x", "c", "v", "b", "n", "m">>>>

\* variant of WindowStarts: range(len(seq) - 4), the last window is skipped
WindowStartsShort(seq) == 0..(Len(seq) - 5)

\* range(len(seq) - 3)
WindowStarts(seq) == 0..(Len(seq) - 4)

has_sequences(pw) ==
    Bind(Lower(pw), LAMBDA p :
        \E k \in 1..Len(sequences) :
            \E i \in WindowStarts(sequences[k]) :
                Contains(SubSeq(sequences[k], i + 1, i + 4), p))

(***************************************************************************)
(* analyze_password                                                        *)
(*                                                                         *)
(* An issue is a record: its kind, and for the birth-date issue the tokens *)
(* its text lists.  A recommendation is its kind; the source has one       *)
(* distinct text per kind.  st is the function's running state: score,     *)
(* issues, recs.                                                           *)
(***************************************************************************)
COMMON_WORDS ==
    {<<"p", "a", "s", "s", "w", "o", "r", "d">>, <<"q", "w", "e", "r", "t", "y">>, <<"a", "d", "m", "i", "n">>, <<"w", "e", "l", "c", "o", "m", "e">>, <<"l", "o", "g", "i", "n">>, <<"u", "s", "e", "r">>,
     <<"i", "l", "o", "v", "e", "y", "o", "u">>, <<"1", "2", "3", "4", "5", "6">>, <<"1", "2", "3", "4", "5", "6", "7", "8">>, <<"1", "1", "1", "1", "1", "1">>, <<"0", "0", "0", "0", "0", "0">>}

Issue(kind) == [kind |-> kind, tokens |-> <<>>]

\* issues.append(issue); score -= penalty; recs.append(rec)
Risk(st, issue, penalty, rec) ==
    [st EXCEPT !.score = @ - penalty,
               !.issues = Append(@, issue),
               !.recs = Append(@, rec)]

CheckFirstName(st, fn_norm, p_norm) ==
    IF fn_norm # <<>> /\ Contains(fn_norm, p_norm)
    THEN Risk(st, Issue("CONTAINS_FIRST_NAME"), 3, "REC_REMOVE_FIRST_NAME")
    ELSE st

CheckLastName(st, ln_norm, p_norm) ==
    IF ln_norm # <<>> /\ Contains(ln_norm, p_norm)
    THEN Risk(st, Issue("CONTAINS_LAST_NAME"), 3, "REC_NO_LAST_NAME")
    ELSE st

\* a < b for two strings of decimal digits, as Python orders str
LexLess(a, b) ==
    \/ \E i \in 1..Len(a) :
            /\ i <= Len(b)
            /\ SubSeq(a, 1, i - 1) = SubSeq(b, 1, i - 1)
            /\ DigitVal(a[i]) < DigitVal(b[i])
    \/ (Len(a) < Len(b) /\ a = SubSeq(b, 1, Len(a)))

\* sorted(S): the members of S in ascending order
sorted(S) ==
    Bind(S, LAMBDA T :
        [i \in 1..Cardinality(T) |->
            CHOOSE x \in T : Cardinality({y \in T : LexLess(y, x)}) = i - 1])

\* the two outcomes of the try block, given what extract_birth_tokens gave
\* and the text the tokens are looked up in
BirthOutcome(st, r, text) ==
    IF ~r.ok
    THEN Risk(st, Issue("INVALID_DOB_FORMAT"), 1, "REC_DOB_FORMAT")
    ELSE Bind({t \in r.tokens : Contains(t, text)}, LAMBDA found_tokens :
            IF found_tokens # {}
            THEN Risk(st, [kind |-> "CONTAINS_BIRTH_FRAGMENT",
                           tokens |-> sorted(found_tokens)],
                      3, "REC_NO_BIRTH_DATE")
            ELSE st)

\* variant of CheckBirth: the tokens are looked up in normalize(password)
CheckBirthNormalized(st, d, pw) ==
    Bind(extract_birth_tokens(d), LAMBDA r : BirthOutcome(st, r, normalize(pw)))

\* the try block: the tokens are looked up in the raw password
CheckBirth(st, d, pw) ==
    Bind(extract_birth_tokens(d), LAMBDA r : BirthOutcome(st, r, pw))

\* variant of CheckLength: a short password costs 3, not 4
CheckLengthLightPenalty(st, pw) ==
    IF Len(pw) < 8
    THEN Risk(st, Issue("TOO_SHORT"), 3, "REC_MIN_LENGTH")
    ELSE IF Len(pw) < 12
    THEN Risk(st, Issue("MEDIUM_LENGTH"), 2, "REC_LONGER")
    ELSE IF Len(pw) < 16
    THEN [st EXCEPT !.recs = Append(@, "REC_LENGTH_GOOD")]
    ELSE st

\* variant of CheckLength: the 12-15 band adds no recommendation
CheckLengthNoNote(st, pw) ==
    IF Len(pw) < 8
    THEN Risk(st, Issue("TOO_SHORT"), 4, "REC_MIN_LENGTH")
    ELSE IF Len(pw) < 12
    THEN Risk(st, Issue("MEDIUM_LENGTH"), 2, "REC_LONGER")
    ELSE st

CheckLength(st, pw) ==
    IF Len(pw) < 8
    THEN Risk(st, Issue("TOO_SHORT"), 4, "REC_MIN_LENGTH")
    ELSE IF 8 <= Len(pw) /\ Len(pw) < 12
    THEN Risk(st, Issue("MEDIUM_LENGTH"), 2, "REC_LONGER")
    ELSE IF 12 <= Len(pw) /\ Len(pw) < 16
    THEN [st EXCEPT !.recs = Append(@, "REC_LENGTH_GOOD")]
    ELSE st

\* sum([has_lower, has_upper, has_digit, has_special])
ClassCount(c) ==
    (IF c.lowercase THEN 1 ELSE 0) + (IF c.uppercase THEN 1 ELSE 0)
        + (IF c.digits THEN 1 ELSE 0) + (IF c.special THEN 1 ELSE 0)

CheckClasses(st, pw) ==
    Bind(char_classes(pw), LAMBDA c :
        IF ClassCount(c) <= 1
        THEN Risk(st, Issue("SINGLE_CHAR_CLASS"), 4, "REC_ADD_CLASSES")
        ELSE IF ClassCount(c) = 2
        THEN Risk(st, Issue("TWO_CHAR_CLASSES"), 2, "REC_ADD_THIRD_CLASS")
        ELSE IF ClassCount(c) = 3 /\ ~c.special
        THEN Risk(st, Issue("NO_SPECIAL_CHARS"), 1, "REC_ADD_SPECIAL")
        ELSE st)

\* re.search(r"(.)\1\1", password): "." matches any character but "\n"
HasRepeat(pw) ==
    \E i \in 1..(Len(pw) - 2) :
        pw[i] # "\n" /\ pw[i + 1] = pw[i] /\ pw[i + 2] = pw[i]

CheckRepeats(st, pw) ==
    IF HasRepeat(pw)
    THEN Risk(st, Issue("REPEATED_CHARS"), 1, "REC_NO_REPEATS")
    ELSE st

CheckSequences(st, pw) ==
    IF has_sequences(pw)
    THEN Risk(st, Issue("HAS_SEQUENCE"), 2, "REC_NO_SEQUENCES")
    ELSE st

CheckCommonWords(st, pw) ==
    IF Bind(Lower(pw), LAMBDA p_low :
            \E w \in COMMON_WORDS : Contains(w, p_low))
    THEN Risk(st, Issue("COMMON_WORD"), 3, "REC_NO_COMMON")
    ELSE st

Max(a, b) == IF a >= b THEN a ELSE b

Min(a, b) == IF a <= b THEN a ELSE b

\* variant of Clamp: min(10, score), the floor is left out
ClampNoFloor(score) == Min(10, score)

\* max(1, min(10, score))
Clamp(score) == Max(1, Min(10, score))

\* variant of GoodPractice: also appended when one issue was recorded
GoodPracticeLenient(st) ==
    Bind(st, LAMBDA t :
        IF Len(t.issues) <= 1
        THEN [t EXCEPT !.recs = Append(@, "REC_GOOD_PRACTICE")]
        ELSE t)

\* if not issues: recs.append(...)
GoodPractice(st) ==
    Bind(st, LAMBDA t :
        IF t.issues = <<>>
        THEN [t EXCEPT !.recs = Append(@, "REC_GOOD_PRACTICE")]
        ELSE t)

\* variant of Dedupe: the entries come out in another order (here reversed)
DedupeUnordered(rs) ==
    Bind(rs, LAMBDA r : [i \in 1..Len(r) |-> r[Len(r) + 1 - i]])

\* list(dict.fromkeys(recs)): the first occurrence of each entry, in order
Dedupe(rs) ==
    Bind(rs, LAMBDA r :
        Bind({i \in 1..Len(r) : \A j \in 1..(i - 1) : r[j] # r[i]},
             LAMBDA first :
                 [k \in 1..Cardinality(first) |->
                     r[CHOOSE i \in first :
                           Cardinality({j \in first : j < i}) = k - 1]]))

\* The function body, top to bottom.  ret is the returned dict; recs is the
\* local list as it stands at the return.
analyze_password(pw, fn, ln, d) ==
    LET p_norm == normalize(pw)
        fn_norm == normalize(fn)
        ln_norm == normalize(ln)
        s0 == [score |-> 10, issues |-> <<>>, recs |-> <<>>]
        s1 == CheckFirstName(s0, fn_norm, p_norm)
        s2 == CheckLastName(s1, ln_norm, p_norm)
        s3 == CheckBirth(s2, d, pw)
        s4 == CheckLength(s3, pw)
        s5 == CheckClasses(s4, pw)
        s6 == CheckRepeats(s5, pw)
        s7 == CheckSequences(s6, pw)
        s8 == CheckCommonWords(s7, pw)
        s9 == GoodPractice([s8 EXCEPT !.score = Clamp(@)])
    IN  Bind(<<s9, char_classes(pw)>>, LAMBDA e :
            [ret  |-> [score |-> e[1].score,
                       issues |-> e[1].issues,
                       recommendations |-> Dedupe(e[1].recs),
                       length |-> Len(pw),
                       classes |-> e[2]],
             recs |-> e[1].recs])

(***************************************************************************)
(* Inputs                                                                  *)
(***************************************************************************)
\* the number of filler chunks a password may end with
MaxPad == 3

\* the longest password tried on has_sequences alone
MaxSeqLen == 4

\* k copies of s
Repeat(s, k) == [i \in 1..(k * Len(s)) |-> s[((i - 1) % Len(s)) + 1]]

Pieces ==
    {<<>>, <<"j", "o", "h", "n">>, <<"J", "o", "-", "h", "n">>, <<"s", "m", "i", "t", "h">>, <<"1", "5">>, <<"1", "9", "9", "0">>, <<"1", ".", "5">>, <<"a", "a", "a">>,
     <<"q", "w", "e", "r">>, <<"a", "d", "m", "i", "n">>, <<"A">>, <<"X", "y", "7", "!">>}

Pads == {<<"K", "9", "$", "m">>, <<"k", "9", "Z", "m">>}

Passwords ==
    {a \o b \o Repeat(pad, k) :
        a \in Pieces, b \in Pieces, pad \in Pads, k \in 0..MaxPad}
    \cup {<<"K", "9", "$", "m", "Z", "x", "7", "!", "Q", "v", "L", "p", "2", "#">>, <<"q", "w", "e", "r", "t", "y", "1", "2", "3">>}

FirstNames == {<<>>, <<"J", "o", "h", "n">>, <<" ", "J", "o", "_", "h", "n", " ">>}

LastNames == {<<>>, <<"S", "m", "i", "t", "h">>}

Dobs == {<<"1", "5", ".", "0", "6", ".", "1", "9", "9", "0">>, <<"0", "1", ".", "0", "1", ".", "2", "0", "0", "0">>, <<"3", "1", ".", "0", "2", ".", "2", "0", "0", "0">>, <<"1", ".", "6", ".", "1", "9", "9", "0">>}

DobDays == {<<"0", "1">>, <<"1", "2">>, <<"1", "5">>, <<"2", "0">>, <<"2", "9">>, <<"3", "1">>, <<"3", "2">>, <<"0", "0">>, <<"1">>, <<" ", "1">>, <<"9", "0">>}

DobMonths == {<<"0", "1">>, <<"0", "2">>, <<"0", "6">>, <<"1", "2">>, <<"1", "3">>, <<"1", "5">>, <<"2", "0">>, <<"6">>}

DobYears == {<<"1", "9", "9", "0">>, <<"2", "0", "0", "0">>, <<"2", "0", "1", "2">>, <<"1", "9", "0", "0">>, <<"1", "2", "1", "5">>, <<"0", "0", "0", "0">>, <<"9", "0">>, <<"1", "9", "9", "0", "0">>}

AllDobs ==
    {d \o <<".">> \o m \o <<".">> \o y :
        d \in DobDays, m \in DobMonths, y \in DobYears}
    \cup {<<>>, <<"1", "5", "-", "0", "6", "-", "1", "9", "9", "0">>, <<"1", "5", ".", "0", "6", ".", "1", "9", "9", "0", " ">>, <<"1", "5", ".", "0", "6">>}

SeqAlphabet == {"0", "1", "2", "3", "W", "x", "y", "z"}

RECURSIVE Strings(_)
Strings(n) ==
    IF n = 0 THEN {<<>>}
    ELSE LET S == Strings(n - 1)
         IN  S \cup {Append(s, c) : s \in S, c \in SeqAlphabet}

SeqPasswords ==
    Strings(MaxSeqLen) \cup {<<"m", "y", "q", "w", "e", "r", "t", "y", "1">>, <<"X", "k", "9", "L", "m", "2", "P", "q">>, <<"4", "3", "2", "1">>, <<"a", "4", "3", "2", "1", "b", "9", "8", "7", "6">>}

(***************************************************************************)
(* The state machine: one call of a function on inputs fixed at the start  *)
(***************************************************************************)
NoResult == <<>>

Fresh ==
    /\ pc = "ready"
    /\ result = NoResult
    /\ recs = <<>>
    /\ birth = NoResult
    /\ seqs = NoResult

Init ==
    /\ password \in Passwords
    /\ first_name \in FirstNames
    /\ last_name \in LastNames
    /\ dob \in Dobs
    /\ Fresh

InitTokens ==
    /\ password = <<>>
    /\ first_name = <<>>
    /\ last_name = <<>>
    /\ dob \in AllDobs
    /\ Fresh

InitSeq ==
    /\ password \in SeqPasswords
    /\ first_name = <<>>
    /\ last_name = <<>>
    /\ dob = <<>>
    /\ Fresh

AnalyzePassword ==
    /\ pc = "ready"
    /\ \E r \in {analyze_password(password, first_name, last_name, dob)} :
           /\ result' = r.ret
           /\ recs' = r.recs
    /\ pc' = "done"
    /\ UNCHANGED <<password, first_name, last_name, dob, birth, seqs>>

ExtractBirthTokens ==
    /\ pc = "ready"
    /\ birth' = extract_birth_tokens(dob)
    /\ pc' = "done"
    /\ UNCHANGED <<password, first_name, last_name, dob, result, recs, seqs>>

HasSequences ==
    /\ pc = "ready"
    /\ seqs' = [found |-> has_sequences(password)]
    /\ pc' = "done"
    /\ UNCHANGED <<password, first_name, last_name, dob, result, recs, birth>>

Next == AnalyzePassword

NextTokens == ExtractBirthTokens

NextSeq == HasSequences

Spec == Init /\ [][Next]_vars

SpecTokens == InitTokens /\ [][NextTokens]_vars

SpecSeq == InitSeq /\ [][NextSeq]_vars

(***************************************************************************)
(* Vocabulary of the properties.  These are stated from the specification  *)
(* and do not go through the operators that model the code.                *)
(***************************************************************************)
Done == pc = "done"

HasIssue(kind) == \E i \in 1..Len(result.issues) : result.issues[i].kind = kind

HasRecommendation(rec) ==
    \E i \in 1..Len(result.recommendations) : result.recommendations[i] = rec

\* the fixed penalty of each kind of issue
Penalty(kind) ==
    CASE kind = "CONTAINS_FIRST_NAME" -> 3
      [] kind = "CONTAINS_LAST_NAME" -> 3
      [] kind = "CONTAINS_BIRTH_FRAGMENT" -> 3
      [] kind = "INVALID_DOB_FORMAT" -> 1
      [] kind = "TOO_SHORT" -> 4
      [] kind = "MEDIUM_LENGTH" -> 2
      [] kind = "SINGLE_CHAR_CLASS" -> 4
      [] kind = "TWO_CHAR_CLASSES" -> 2
      [] kind = "NO_SPECIAL_CHARS" -> 1
      [] kind = "REPEATED_CHARS" -> 1
      [] kind = "HAS_SEQUENCE" -> 2
      [] kind = "COMMON_WORD" -> 3

RECURSIVE PenaltySum(_)
PenaltySum(issues) ==
    IF issues = <<>> THEN 0
    ELSE Penalty(Head(issues).kind) + PenaltySum(Tail(issues))

\* a text lowercased with every whitespace, underscore, hyphen and period
\* taken out, one character at a time
RECURSIVE NormalizedText(_)
NormalizedText(s) ==
    IF s = <<>> THEN <<>>
    ELSE IF Head(s) \in {" ", "\t", "\n", "\r", "\f", "_", "-", "."}
    THEN NormalizedText(Tail(s))
    ELSE <<LowerChar(Head(s))>> \o NormalizedText(Tail(s))

\* the number a text of decimal digits writes
RECURSIVE Number(_)
Number(s) ==
    IF s = <<>> THEN 0
    ELSE 10 * Number(SubSeq(s, 1, Len(s) - 1)) + DigitVal(s[Len(s)])

DayText(d) == SubSeq(d, 1, 2)

MonthText(d) == SubSeq(d, 4, 5)

YearText(d) == SubSeq(d, 7, 10)

ShortYearText(d) == SubSeq(d, 9, 10)

\* d is a real calendar date written exactly as DD.MM.YYYY
StrictDate(d) ==
    /\ Len(d) = 10
    /\ d[3] = "." /\ d[6] = "."
    /\ \A i \in {1, 2, 4, 5, 7, 8, 9, 10} : d[i] \in DigitSet
    /\ Number(MonthText(d)) \in 1..12
    /\ Number(YearText(d)) >= 1
    /\ Number(DayText(d)) >= 1
    /\ Number(DayText(d)) <= DaysInMonth(Number(YearText(d)), Number(MonthText(d)))

\* the ten tokens of a date written DD.MM.YYYY, cut from its text
DateTokens(d) ==
    {DayText(d), MonthText(d), YearText(d), ShortYearText(d),
     DayText(d) \o MonthText(d), MonthText(d) \o DayText(d),
     YearText(d) \o MonthText(d) \o DayText(d),
     DayText(d) \o MonthText(d) \o YearText(d),
     ShortYearText(d) \o MonthText(d) \o DayText(d),
     DayText(d) \o MonthText(d) \o ShortYearText(d)}

\* four characters in a row of the lowercased password stand next to each
\* other, in the same order, in one of the five reference strings
ForwardRun(pw) ==
    \E k \in 1..(Len(pw) - 3) :
        \E r \in {<<"0", "1", "2", "3", "4", "5", "6", "7", "8", "9">>, <<"a", "b", "c", "d", "e", "f", "g", "h", "i", "j", "k", "l", "m", "n", "o", "p", "q", "r", "s", "t", "u", "v", "w", "x", "y", "z">>,
                  <<"q", "w", "e", "r", "t", "y", "u", "i", "o", "p">>, <<"a", "s", "d", "f", "g", "h", "j", "k", "l">>, <<"z", "x", "c", "v", "b", "n", "m">>} :
            \E j \in 1..(Len(r) - 3) :
                \A n \in 0..3 : LowerChar(pw[k + n]) = r[j + n]

(***************************************************************************)
(* Properties                                                              *)
(***************************************************************************)

\* C1: whatever the four inputs, the returned score is an integer between
\* 1 and 10, however many penalties were subtracted.
C1_ScoreInRange == Done => result.score \in 1..10

\* C1 witness: a call whose penalties add up to more than 9 and whose score
\* is held at 1.
C1_FloorReached ==
    Done /\ PenaltySum(result.issues) > 9 /\ result.score = 1

IsSampleCall ==
    /\ password = <<"K", "9", "$", "m", "Z", "x", "7", "!", "Q", "v", "L", "p", "2", "#">>
    /\ first_name = <<"J", "o", "h", "n">>
    /\ last_name = <<"S", "m", "i", "t", "h">>
    /\ dob = <<"0", "1", ".", "0", "1", ".", "2", "0", "0", "0">>

\* C2 as stated: the sample call analyze("K9$mZx7!QvLp2#", "John", "Smith",
\* "01.01.2000") returns no issues, score 10 and exactly one recommendation,
\* the generic good-practice one.
C2_SampleOnlyGeneric ==
    (Done /\ IsSampleCall) =>
        /\ result.issues = <<>>
        /\ result.score = 10
        /\ result.recommendations = <<"REC_GOOD_PRACTICE">>

\* C2 amended: the sample password has 14 characters, so the call returns
\* no issues, score 10 and two recommendations: the note of the 12-15 length
\* band, then the generic good-practice one.
C2_SampleLengthNoteThenGeneric ==
    (Done /\ IsSampleCall) =>
        /\ result.issues = <<>>
        /\ result.score = 10
        /\ result.length = 14
        /\ result.recommendations = <<"REC_LENGTH_GOOD", "REC_GOOD_PRACTICE">>

\* C2 witness: the sample call has returned.
C2_SampleReturned == Done /\ IsSampleCall /\ Len(result.recommendations) = 2

\* C3 as stated: for every date-of-birth text that is not a real calendar
\* date written exactly as DD.MM.YYYY, the result reports INVALID_DOB_FORMAT
\* (penalty 1) and no CONTAINS_BIRTH_FRAGMENT.
C3_InexactDateReported ==
    (Done /\ ~StrictDate(dob)) =>
        /\ HasIssue("INVALID_DOB_FORMAT")
        /\ ~HasIssue("CONTAINS_BIRTH_FRAGMENT")
        /\ result.score <= 9

\* C4: the returned recommendations hold no entry twice, hold every entry
\* that was appended, and keep the order in which the entries were first
\* appended.
C4_RecommendationsDistinctInOrder ==
    Done =>
        LET out == result.recommendations
            FirstAt(r) == CHOOSE i \in 1..Len(recs) :
                              recs[i] = r /\ \A j \in 1..(i - 1) : recs[j] # r
        IN  /\ \A i, j \in 1..Len(out) : i # j => out[i] # out[j]
            /\ {out[i] : i \in 1..Len(out)} = {recs[i] : i \in 1..Len(recs)}
            /\ \A i, j \in 1..Len(out) : i < j => FirstAt(out[i]) < FirstAt(out[j])

\* C4 witness: a call that returned at least four recommendations.
C4_SeveralRecommendations == Done /\ Len(result.recommendations) >= 4

\* C5: when the normalized first name is non-empty and occurs in the
\* normalized password, CONTAINS_FIRST_NAME is reported and the score is at
\* most 7; when the normalized first name is empty it is never reported.
C5_FirstNameReported ==
    Done =>
        LET name == NormalizedText(first_name)
        IN  /\ (name # <<>> /\ Contains(name, NormalizedText(password))) =>
                   (HasIssue("CONTAINS_FIRST_NAME") /\ result.score <= 7)
            /\ (name = <<>>) => ~HasIssue("CONTAINS_FIRST_NAME")

\* C5 witness: the first name is reported although neither the name as
\* typed nor its letters in a row occur in the password as typed.
C5_NameFoundAfterNormalizing ==
    /\ Done
    /\ HasIssue("CONTAINS_FIRST_NAME")
    /\ ~Contains(Lower(first_name), Lower(password))
    /\ ~Contains(<<"j", "o", "h", "n">>, Lower(password))

\* C6: for every valid date DD.MM.YYYY, extract_birth_tokens returns exactly
\* the set dd, mm, yyyy, yy, dd+mm, mm+dd, yyyy+mm+dd, dd+mm+yyyy, yy+mm+dd,
\* dd+mm+yy (for 15.06.1990 the ten listed tokens), which has 10 members
\* whenever dd, mm and yy are pairwise distinct.
C6_BirthTokens ==
    (Done /\ StrictDate(dob)) =>
        /\ birth.ok
        /\ birth.tokens = DateTokens(dob)
        /\ (/\ DayText(dob) # MonthText(dob)
            /\ DayText(dob) # ShortYearText(dob)
            /\ MonthText(dob) # ShortYearText(dob))
               => Cardinality(birth.tokens) = 10
        /\ (dob = <<"1", "5", ".", "0", "6", ".", "1", "9", "9", "0">>) =>
               birth.tokens = {<<"1", "5">>, <<"0", "6">>, <<"1", "9", "9", "0">>, <<"9", "0">>, <<"1", "5", "0", "6">>, <<"0", "6", "1", "5">>,
                               <<"1", "9", "9", "0", "0", "6", "1", "5">>, <<"1", "5", "0", "6", "1", "9", "9", "0">>, <<"9", "0", "0", "6", "1", "5">>, <<"1", "5", "0", "6", "9", "0">>}

\* C6 witness: a valid date with a one-digit day number and pairwise
\* distinct dd, mm, yy has given its ten tokens.
C6_TenTokens ==
    /\ Done
    /\ StrictDate(dob)
    /\ DayText(dob) = <<"0", "1">>
    /\ Cardinality(birth.tokens) = 10

\* C7: has_sequences is true exactly when the lowercased password holds a
\* 4-character window of one of the five reference strings in forward
\* order; "myqwerty1" gives true, "Xk9Lm2Pq" and the reversed "4321" false.
C7_ForwardRunsOnly ==
    Done =>
        /\ seqs.found <=> ForwardRun(password)
        /\ (password = <<"m", "y", "q", "w", "e", "r", "t", "y", "1">>) => seqs.found
        /\ (password \in {<<"X", "k", "9", "L", "m", "2", "P", "q">>, <<"4", "3", "2", "1">>, <<"a", "4", "3", "2", "1", "b", "9", "8", "7", "6">>}) => ~seqs.found

\* C7 witness: a password found by the last window of the alphabet, "wxyz",
\* in mixed case.
C7_LastWindowFound ==
    Done /\ seqs.found /\ password = <<"W", "x", "y", "z">>

\* C8: the score is max(1, 10 - P), P the sum of the fixed penalties of the
\* issues recorded.
C8_ScoreIsClampedSum ==
    Done => result.score = Max(1, 10 - PenaltySum(result.issues))

\* C8 witness: three or more issues whose penalties add up without
\* reaching the floor.
C8_SeveralPenaltiesAboveFloor ==
    /\ Done
    /\ Len(result.issues) >= 3
    /\ result.score > 1
    /\ HasIssue("TOO_SHORT")

\* C9: for a valid date of birth, CONTAINS_BIRTH_FRAGMENT is reported
\* exactly when some birth token occurs in the raw password; it is reported
\* once, and lists exactly the tokens that occur, in ascending order.
C9_BirthFragment ==
    (Done /\ StrictDate(dob)) =>
        LET matched == {t \in DateTokens(dob) : Contains(t, password)}
            at == {i \in 1..Len(result.issues) :
                      result.issues[i].kind = "CONTAINS_BIRTH_FRAGMENT"}
        IN  /\ (at # {}) <=> (matched # {})
            /\ Cardinality(at) <= 1
            /\ \A i \in at :
                   LET listed == result.issues[i].tokens
                   IN  /\ {listed[n] : n \in 1..Len(listed)} = matched
                       /\ \A m, n \in 1..Len(listed) :
                              m < n => LexLess(listed[m], listed[n])
            /\ result.score =
                   Max(1, 10 - (IF at # {} THEN 3 ELSE 0)
                             - PenaltySum(SelectSeq(result.issues,
                                   LAMBDA x : x.kind # "CONTAINS_BIRTH_FRAGMENT")))

\* C9 witness: a valid date, three tokens of which occur in the password.
C9_ThreeTokensListed ==
    /\ Done
    /\ StrictDate(dob)
    /\ \E i \in 1..Len(result.issues) :
           /\ result.issues[i].kind = "CONTAINS_BIRTH_FRAGMENT"
           /\ Len(result.issues[i].tokens) = 3

\* C10: no issues, score 10, and the generic recommendation being present
\* are equivalent; when present the generic recommendation is last, after
\* the length note alone (length 12-15) or after nothing.
C10_CleanResult ==
    Done =>
        /\ (result.issues = <<>>) <=> (result.score = 10)
        /\ (result.issues = <<>>) <=> HasRecommendation("REC_GOOD_PRACTICE")
        /\ HasRecommendation("REC_GOOD_PRACTICE") =>
               \/ result.recommendations = <<"REC_GOOD_PRACTICE">>
               \/ /\ result.recommendations =
                        <<"REC_LENGTH_GOOD", "REC_GOOD_PRACTICE">>
                  /\ result.length \in 12..15

\* C10 witness: a password of 16 or more characters with no issue, whose
\* only recommendation is the generic one.
C10_LongCleanPassword ==
    /\ Done
    /\ result.issues = <<>>
    /\ result.length >= 16
    /\ result.recommendations = <<"REC_GOOD_PRACTICE">>

=============================================================================
